---- MODULE Spec2Model ----
(***************************************************************************)
(* A model of nfl_odds_api.py: the market-name normalisation, the three    *)
(* HTTP fetch functions and the game-environment map built from the totals *)
(* and moneyline responses.                                                *)
(*                                                                         *)
(* Encoding of Python values:                                              *)
(*   - a value that may be None is <<>> (None) or <<v>> (the value v);     *)
(*   - a market name, which the code strips, is the sequence of its        *)
(*     pieces, " " being one whitespace character and every other piece a  *)
(*     run of non-whitespace characters; a matchup key, which the code     *)
(*     formats, is the sequence of its three parts; every other str is a   *)
(*     TLA+ string;                                                        *)
(*   - a dict is a function on its keys (a record); a JSON object that     *)
(*     lacks a key is a record without that field;                         *)
(*   - a JSON list is a sequence.                                          *)
(***************************************************************************)
EXTENDS Integers, Sequences, FiniteSets, TLC

(***************************************************************************)
(* Bounds of the model.                                                    *)
(***************************************************************************)
\* longest `markets` argument of fetch_nfl_props
MaxMarkets == 3
\* longest list of games in one response of the provider
MaxGames == 2
\* longest list of bookmakers of one game
MaxBooks == 2

(***************************************************************************)
(* Python values.                                                          *)
(***************************************************************************)
None == <<>>
Some(v) == <<v>>
IsNone(x) == x = None
Val(x) == x[1]

EmptyDict == [k \in {} |-> 0]

\* dict.get(key, default)
Get(d, key, default) == IF key \in DOMAIN d THEN d[key] ELSE default

\* str.strip(): drop the leading and the trailing whitespace
RECURSIVE LStrip(_)
LStrip(s) == IF s # <<>> /\ Head(s) = " " THEN LStrip(Tail(s)) ELSE s

RECURSIVE RStrip(_)
RStrip(s) == IF s # <<>> /\ s[Len(s)] = " " THEN RStrip(SubSeq(s, 1, Len(s) - 1)) ELSE s

Strip(s) == RStrip(LStrip(s))

(***************************************************************************)
(* Module constants.                                                       *)
(***************************************************************************)
MARKET_ALIASES ==
    (<<"player_rec_yds">> :> <<"player_receiving_yds">>) @@
    (<<"player_rec">>     :> <<"player_receptions">>) @@
    (<<"receptions">>     :> <<"player_receptions">>) @@
    (<<"receiving_yds">>  :> <<"player_receiving_yds">>) @@
    (<<"rush_yds">>       :> <<"player_rush_yds">>) @@
    (<<"pass_yds">>       :> <<"player_pass_yds">>)

VALID_PLAYER_MARKETS ==
    { <<"player_anytime_td">>,
      <<"player_first_td">>,
      <<"player_pass_yds">>,
      <<"player_pass_tds">>,
      <<"player_pass_interceptions">>,
      <<"player_rush_yds">>,
      <<"player_rush_attempts">>,
      <<"player_receptions">>,
      <<"player_receiving_yds">>,
      <<"player_field_goals">> }

\* The market keys in the order of Python's string comparison: TLA+ has no
\* order on strings, so sorted() reads the order off this list.
AlphabeticalOrder ==
    << <<"player_anytime_td">>,
       <<"player_field_goals">>,
       <<"player_first_td">>,
       <<"player_pass_interceptions">>,
       <<"player_pass_tds">>,
       <<"player_pass_yds">>,
       <<"player_receiving_yds">>,
       <<"player_receptions">>,
       <<"player_rush_attempts">>,
       <<"player_rush_yds">> >>

\* sorted(S), for a set S of market keys
sorted(S) == LET In(k) == k \in S IN SelectSeq(AlphabeticalOrder, In)

(***************************************************************************)
(* _normalize_markets                                                      *)
(***************************************************************************)
\* lines 34-35: one name, stripped and resolved through the alias table
Canonical(m) == Get(MARKET_ALIASES, Strip(m), Strip(m))

\* line 36: the whitelist test
Supported(m) == m \in VALID_PLAYER_MARKETS

\* A faulty first loop: a name that is not whitelisted is dropped instead of
\* raising. C2 does not hold of it.
RECURSIVE NormLoopSkipping(_, _)
NormLoopSkipping(markets, norm) ==
    IF markets = <<>> THEN [kind |-> "return", value |-> norm]
    ELSE LET m == Canonical(Head(markets)) IN
         IF ~Supported(m)
         THEN NormLoopSkipping(Tail(markets), norm)
         ELSE NormLoopSkipping(Tail(markets), Append(norm, m))

\* lines 32-38: the first loop. It yields the list norm, or the ValueError
\* raised at the first name that is not whitelisted.
RECURSIVE NormLoop(_, _)
NormLoop(markets, norm) ==
    IF markets = <<>> THEN [kind |-> "return", value |-> norm]
    ELSE LET m == Canonical(Head(markets)) IN
         IF ~Supported(m)
         THEN [kind |-> "raise", exc |-> "ValueError", market |-> m,
               valid |-> sorted(VALID_PLAYER_MARKETS)]
         ELSE NormLoop(Tail(markets), Append(norm, m))

\* A faulty de-duplication: it keeps the last occurrence of a key, not the
\* first. C3 does not hold of it.
RECURSIVE DeDupeKeepLast(_, _, _)
DeDupeKeepLast(norm, seen, out) ==
    IF norm = <<>> THEN out
    ELSE LET m == Head(norm)
             rest == Tail(norm)
         IN IF \E i \in DOMAIN rest : rest[i] = m
            THEN DeDupeKeepLast(rest, seen, out)
            ELSE DeDupeKeepLast(rest, seen \cup {m}, Append(out, m))

\* lines 39-46: de-duplication preserving order
RECURSIVE DeDupe(_, _, _)
DeDupe(norm, seen, out) ==
    IF norm = <<>> THEN out
    ELSE LET m == Head(norm) IN
         IF m \notin seen
         THEN DeDupe(Tail(norm), seen \cup {m}, Append(out, m))
         ELSE DeDupe(Tail(norm), seen, out)

_normalize_markets(markets) ==
    LET r == NormLoop(markets, <<>>) IN
    IF r.kind = "raise" THEN r
    ELSE [kind |-> "return", value |-> DeDupe(r.value, {}, <<>>)]

(***************************************************************************)
(* get_nfl_game_environment_map: the pure parts.                           *)
(***************************************************************************)
\* lines 167 and 196: f"{game['away_team']} @ {game['home_team']}"
Matchup(game) == <<game.away_team, " @ ", game.home_team>>

\* game['away_team'] and game['home_team'] raise KeyError on a missing key
HasTeams(game) == "away_team" \in DOMAIN game /\ "home_team" \in DOMAIN game

\* lines 177-182: the outcomes of one totals market, folded over the locals
\* t = [total_point, over_odds, under_odds]
RECURSIVE TotalsOutcomes(_, _)
TotalsOutcomes(outcomes, t) ==
    IF outcomes = <<>> THEN t
    ELSE LET outcome == Head(outcomes) IN
         TotalsOutcomes(Tail(outcomes),
            IF outcome.name = "Over"
            THEN [t EXCEPT !.total_point = Some(Get(outcome, "point", 0)),
                           !.over_odds = Some(Get(outcome, "price", 0))]
            ELSE IF outcome.name = "Under"
            THEN [t EXCEPT !.under_odds = Some(Get(outcome, "price", 0))]
            ELSE t)

\* lines 175-183: the markets of one bookmaker, up to and including its
\* first 'totals' market (the break)
RECURSIVE TotalsMarkets(_, _)
TotalsMarkets(markets, t) ==
    IF markets = <<>> THEN t
    ELSE LET market == Head(markets) IN
         IF market.key = "totals"
         THEN TotalsOutcomes(Get(market, "outcomes", <<>>), t)
         ELSE TotalsMarkets(Tail(markets), t)

\* lines 184-185: the scan of the bookmakers ends once total_point is set
TotalsFound(t) == ~IsNone(t.total_point)

\* lines 174-185: the bookmakers of one game, in the provider's order
RECURSIVE TotalsBookmakers(_, _)
TotalsBookmakers(bookmakers, t) ==
    IF bookmakers = <<>> THEN t
    ELSE LET t2 == TotalsMarkets(Get(Head(bookmakers), "markets", <<>>), t) IN
         IF TotalsFound(t2) THEN t2 ELSE TotalsBookmakers(Tail(bookmakers), t2)

\* lines 170-172: the locals before the scan of a game
NoTotals == [total_point |-> None, over_odds |-> None, under_odds |-> None]

\* lines 170-185: the locals after the scan of one game
TotalsScan(game) ==
    TotalsBookmakers(Get(game, "bookmakers", <<>>), NoTotals)

\* lines 187-192: the entry written for the game, if any
TotalsStore(lookup, game) ==
    LET t == TotalsScan(game) IN
    IF ~IsNone(t.total_point)
    THEN (Matchup(game) :> [total |-> t.total_point,
                            over_odds |-> t.over_odds,
                            under_odds |-> t.under_odds]) @@ lookup
    ELSE lookup

\* lines 205-209: the outcomes of one h2h market, folded over the locals
\* o = [away_odds, home_odds]
RECURSIVE H2hOutcomes(_, _, _)
H2hOutcomes(outcomes, game, o) ==
    IF outcomes = <<>> THEN o
    ELSE LET outcome == Head(outcomes) IN
         H2hOutcomes(Tail(outcomes), game,
            IF outcome.name = game.away_team
            THEN [o EXCEPT !.away_odds = Some(Get(outcome, "price", 0))]
            ELSE IF outcome.name = game.home_team
            THEN [o EXCEPT !.home_odds = Some(Get(outcome, "price", 0))]
            ELSE o)

\* lines 203-210: up to and including the bookmaker's first 'h2h' market
RECURSIVE H2hMarkets(_, _, _)
H2hMarkets(markets, game, o) ==
    IF markets = <<>> THEN o
    ELSE LET market == Head(markets) IN
         IF market.key = "h2h"
         THEN H2hOutcomes(Get(market, "outcomes", <<>>), game, o)
         ELSE H2hMarkets(Tail(markets), game, o)

\* lines 211-212 and 214: both prices are known
H2hFound(o) == ~IsNone(o.away_odds) /\ ~IsNone(o.home_odds)

\* lines 202-212: the bookmakers of one game, in the provider's order
RECURSIVE H2hBookmakers(_, _, _)
H2hBookmakers(bookmakers, game, o) ==
    IF bookmakers = <<>> THEN o
    ELSE LET o2 == H2hMarkets(Get(Head(bookmakers), "markets", <<>>), game, o) IN
         IF H2hFound(o2) THEN o2 ELSE H2hBookmakers(Tail(bookmakers), game, o2)

\* lines 199-200: the locals before the scan of a game
NoH2h == [away_odds |-> None, home_odds |-> None]

\* lines 199-212: the locals after the scan of one game
H2hScan(game) ==
    H2hBookmakers(Get(game, "bookmakers", <<>>), game, NoH2h)

\* A faulty choice of the favored team: level prices favor the home team.
\* C7 does not hold of it.
FavoredTeamTieHome(game, home_odds, away_odds) ==
    IF Val(home_odds) <= Val(away_odds) THEN game.home_team ELSE game.away_team

\* line 216: lower odds = favored
FavoredTeam(game, home_odds, away_odds) ==
    IF Val(home_odds) < Val(away_odds) THEN game.home_team ELSE game.away_team

\* lines 214-224: the entry written for the game, if any
MoneylineStore(lookup, game) ==
    LET o == H2hScan(game) IN
    IF H2hFound(o)
    THEN (Matchup(game) :> [away_team |-> game.away_team,
                            home_team |-> game.home_team,
                            favored_team |-> FavoredTeam(game, o.home_odds, o.away_odds),
                            away_odds |-> o.away_odds,
                            home_odds |-> o.home_odds]) @@ lookup
    ELSE lookup

\* A faulty classification: a total of exactly 50 is not high scoring.
\* C4 does not hold of it.
ClassifyAbove50(total_point, over_odds, under_odds) ==
    IF IsNone(total_point) THEN "TypeError"
    ELSE IF Val(total_point) > 50 THEN "High Scoring"
    ELSE IF IsNone(over_odds) THEN "TypeError"
    ELSE IF Val(over_odds) <= -115 /\ Val(total_point) >= 47 THEN "High Scoring"
    ELSE IF Val(total_point) <= 42 THEN "Low Scoring"
    ELSE IF IsNone(under_odds) THEN "TypeError"
    ELSE IF Val(under_odds) <= -115 /\ Val(total_point) <= 45 THEN "Low Scoring"
    ELSE "Neutral"

\* lines 238-243, in Python's order of evaluation: a comparison of None with
\* a number raises TypeError, and `or` / `and` / `elif` evaluate their right
\* side only when the left side leaves the result open
Classify(total_point, over_odds, under_odds) ==
    IF IsNone(total_point) THEN "TypeError"
    ELSE IF Val(total_point) >= 50 THEN "High Scoring"
    ELSE IF IsNone(over_odds) THEN "TypeError"
    ELSE IF Val(over_odds) <= -115 /\ Val(total_point) >= 47 THEN "High Scoring"
    ELSE IF Val(total_point) <= 42 THEN "Low Scoring"
    ELSE IF IsNone(under_odds) THEN "TypeError"
    ELSE IF Val(under_odds) <= -115 /\ Val(total_point) <= 45 THEN "Low Scoring"
    ELSE "Neutral"

\* lines 230-235: the totals fields of a matchup, defaulted to 0
TotalsFields(totals_info) ==
    [total |-> Get(totals_info, "total", Some(0)),
     over_odds |-> Get(totals_info, "over_odds", Some(0)),
     under_odds |-> Get(totals_info, "under_odds", Some(0))]

\* lines 245-251: the record of a matchup; ** lets the moneyline fields
\* override equally named ones
EnvironmentRecord(environment, f, moneyline_info) ==
    moneyline_info @@ [environment |-> environment,
                       total |-> f.total,
                       over_odds |-> f.over_odds,
                       under_odds |-> f.under_odds]

\* line 229: the matchups to combine
CombineKeys(totals, moneylines) == DOMAIN totals \cup DOMAIN moneylines

\* A faulty except clause: it returns the part of the map built so far.
\* C5 does not hold of it.
ExceptResultPartial(partial_map) == partial_map

\* lines 255-257: what the except clause returns
ExceptResult(partial_map) == EmptyDict

(***************************************************************************)
(* What the callers and the provider can supply.                           *)
(***************************************************************************)
\* names a caller may pass in `markets`: canonical keys, aliases, padded
\* names, and names that are not whitelisted
MarketNames ==
    { <<"player_rush_yds">>, <<"rush_yds">>, <<" ", "rush_yds", " ">>,
      <<"player_receptions">>, <<"receptions">>, <<"player_rec", " ">>,
      <<"player_pass_yds">>,
      <<"totals">>, <<"Rush_Yds">>, <<"rush", " ", "yds">>, <<" ">> }

RECURSIVE ListsUpTo(_, _)
ListsUpTo(S, n) ==
    IF n = 0 THEN {<<>>}
    ELSE LET shorter == ListsUpTo(S, n - 1) IN
         shorter \cup {Append(l, x) : l \in shorter, x \in S}

\* the `markets` argument: None, or a list of names
MarketArgs == {None} \cup {Some(l) : l \in ListsUpTo(MarketNames, MaxMarkets)}

\* what requests.get can do: a response with a status code, or an exception
HttpOutcomes ==
    {[status_code |-> 200], [status_code |-> 401], [status_code |-> 500],
     [exc |-> "Timeout"]}

Fixtures ==
    {[away_team |-> "BUF", home_team |-> "KC"],
     [away_team |-> "DAL", home_team |-> "NYG"]}

\* Over outcomes around the thresholds of lines 240-242: a line (point)
\* with its price
OverOutcomes ==
    {[name |-> "Over", point |-> 42, price |-> -110],
     [name |-> "Over", point |-> 45, price |-> -110],
     [name |-> "Over", point |-> 46, price |-> -115],
     [name |-> "Over", point |-> 46, price |-> -110],
     [name |-> "Over", point |-> 47, price |-> -115],
     [name |-> "Over", point |-> 47, price |-> -110],
     [name |-> "Over", point |-> 50, price |-> -110],
     [name |-> "Over", point |-> 51, price |-> -110]}

UnderOutcomes == {[name |-> "Under", price |-> -115], [name |-> "Under", price |-> -110]}

\* the outcome lists of a totals market: none, one side only, or both
TotalsOutcomeLists ==
    {<<>>} \cup {<<o>> : o \in OverOutcomes} \cup {<<u>> : u \in UnderOutcomes}
           \cup {<<o, u>> : o \in OverOutcomes, u \in UnderOutcomes}

TotalsMarket(outcomes) == [key |-> "totals", outcomes |-> outcomes]
H2hMarket(outcomes) == [key |-> "h2h", outcomes |-> outcomes]

\* bookmakers as the totals request returns them; the last one lists no
\* totals market
TotalsBooks ==
    {[key |-> "book", markets |-> <<TotalsMarket(l)>>] : l \in TotalsOutcomeLists}
    \cup {[key |-> "book", markets |-> <<H2hMarket(<<>>)>>]}

\* A game's bookmakers as far as the scan of lines 174-185 reads them: the
\* scan stops at the first bookmaker that sets total_point, so every
\* bookmaker before the last one read has no Over outcome.
RECURSIVE TotalsBookLists(_)
TotalsBookLists(n) ==
    IF n = 0 THEN {<<>>}
    ELSE LET shorter == TotalsBookLists(n - 1) IN
         shorter \cup {Append(l, b) :
                          l \in {x \in shorter : ~TotalsFound(TotalsBookmakers(x, NoTotals))},
                          b \in TotalsBooks}

\* the games of a totals response: a fixture with its bookmakers, a fixture
\* without the 'bookmakers' key, and a game that lacks 'home_team'
TotalsGames ==
    {[away_team |-> f.away_team, home_team |-> f.home_team, bookmakers |-> l] :
        f \in Fixtures, l \in TotalsBookLists(MaxBooks)}
    \cup {[away_team |-> f.away_team, home_team |-> f.home_team] : f \in Fixtures}
    \cup {[away_team |-> "BUF", bookmakers |-> <<>>]}

\* the outcome lists of an h2h market of a fixture: one side only, or both
\* sides with the home team favored, the away team favored, or level
H2hOutcomeLists(f) ==
    LET away(q) == [name |-> f.away_team, price |-> q]
        home(q) == [name |-> f.home_team, price |-> q]
    IN {<<away(-110)>>, <<home(-110)>>,
        <<away(130), home(-150)>>, <<away(-150), home(130)>>, <<away(-110), home(-110)>>}

MoneylineBooks(f) ==
    {[key |-> "book", markets |-> <<H2hMarket(l)>>] : l \in H2hOutcomeLists(f)}
    \cup {[key |-> "book", markets |-> <<TotalsMarket(<<>>)>>]}

\* A game's bookmakers as far as the scan of lines 202-212 reads them: the
\* scan stops at the first bookmaker after which both prices are known.
RECURSIVE MoneylineBookLists(_, _)
MoneylineBookLists(f, n) ==
    IF n = 0 THEN {<<>>}
    ELSE LET shorter == MoneylineBookLists(f, n - 1) IN
         shorter \cup {Append(l, b) :
                          l \in {x \in shorter : ~H2hFound(H2hBookmakers(x, f, NoH2h))},
                          b \in MoneylineBooks(f)}

\* the games of a moneyline response: a fixture with its bookmakers, and a
\* game that lacks 'home_team'
MoneylineGames ==
    {[away_team |-> fl[1].away_team, home_team |-> fl[1].home_team, bookmakers |-> fl[2]] :
        fl \in UNION {{<<f, l>> : l \in MoneylineBookLists(f, MaxBooks)} : f \in Fixtures}}
    \cup {[away_team |-> "BUF", bookmakers |-> <<>>]}

(***************************************************************************)
(* The state.                                                              *)
(***************************************************************************)
VARIABLES
    ODDS_API_KEY,       \* line 5: os.getenv("ODDS_API_KEY"), read at import
    pc,                 \* where the running call stands; "idle" between calls, "done" at its end
    call,               \* the public function that was called
    markets,            \* fetch_nfl_props: the argument `markets`
    normalized,         \* fetch_nfl_props: `markets` after line 77
    http,               \* the requests issued by the running call, in order
    ret,                \* how the call ended: a value returned or an exception raised
    e,                  \* line 255: the exception the except clause caught
    totals_read,        \* line 166: games of totals_data iterated so far, while the loop runs
    moneylines_read,    \* line 195: games of moneylines_data iterated so far, while the loop runs
    game,               \* line 166: the game the totals loop is about to read, where known
    totals_lookup,      \* line 162
    moneylines_lookup,  \* line 163
    environment_map,    \* line 227
    todo                \* line 229: matchups not yet iterated

vars == <<ODDS_API_KEY, pc, call, markets, normalized, http, ret, e, totals_read,
          moneylines_read, game, totals_lookup, moneylines_lookup, environment_map, todo>>

PublicFunctions ==
    {"fetch_nfl_props", "get_nfl_game_totals", "get_nfl_moneylines",
     "get_nfl_game_environment_map"}

\* the values os.getenv can give: unset, empty, a key
ApiKeys == {None, Some(""), Some("key")}

\* A faulty key test: `ODDS_API_KEY is None`, which lets the empty key pass.
\* C1 does not hold of it.
KeyMissingNoneOnly == IsNone(ODDS_API_KEY)

\* lines 72, 110, 133: `not ODDS_API_KEY`
KeyMissing == IsNone(ODDS_API_KEY) \/ Val(ODDS_API_KEY) = ""

\* line 76: the default markets
DefaultMarkets ==
    << <<"player_pass_yds">>, <<"player_rush_yds">>, <<"player_receiving_yds">>,
       <<"player_receptions">> >>

\* resp.json() of lines 106, 129, 152, as the three fetch functions hand it
\* to their caller: the body is not looked into
ResponseJson == "resp.json()"

Running == [kind |-> "none"]
Returned(value) == [kind |-> "return", value |-> value]
Exception(exc) == [kind |-> "raise", exc |-> exc]

Init ==
    /\ ODDS_API_KEY \in ApiKeys
    /\ pc = "idle"
    /\ call = "none"
    /\ markets = None
    /\ normalized = <<>>
    /\ http = <<>>
    /\ ret = Running
    /\ e = "None"
    /\ totals_read = 0
    /\ moneylines_read = 0
    /\ game = None
    /\ totals_lookup = EmptyDict
    /\ moneylines_lookup = EmptyDict
    /\ environment_map = EmptyDict
    /\ todo = {}

\* A caller calls one of the public functions.
Call ==
    /\ pc = "idle"
    /\ \E f \in PublicFunctions :
          /\ call' = f
          /\ pc' = IF f = "get_nfl_game_environment_map" THEN "get_nfl_game_totals" ELSE f
          /\ IF f = "fetch_nfl_props"
             THEN \E m \in MarketArgs : markets' = m
             ELSE markets' = None
    /\ UNCHANGED <<ODDS_API_KEY, normalized, http, ret, e, totals_read, moneylines_read,
                   game, totals_lookup, moneylines_lookup, environment_map, todo>>

\* The call has ended and the caller has its result: the frame is gone.
Return ==
    /\ pc = "done"
    /\ pc' = "idle"
    /\ call' = "none"
    /\ markets' = None
    /\ normalized' = <<>>
    /\ http' = <<>>
    /\ ret' = Running
    /\ e' = "None"
    /\ totals_read' = 0
    /\ moneylines_read' = 0
    /\ game' = None
    /\ totals_lookup' = EmptyDict
    /\ moneylines_lookup' = EmptyDict
    /\ environment_map' = EmptyDict
    /\ todo' = {}
    /\ UNCHANGED ODDS_API_KEY

\* An exception leaves the function that raises it. Inside
\* get_nfl_game_environment_map the try of line 156 catches it (lines
\* 255-257); elsewhere it reaches the caller.
Raise(x) ==
    /\ pc' = "done"
    /\ IF call = "get_nfl_game_environment_map"
       THEN /\ e' = x.exc
            /\ ret' = Returned(ExceptResult(environment_map))
       ELSE /\ e' = e
            /\ ret' = x

\* lines 98-104, 122-127, 145-150: the error of a response that is not 200
HttpError(status_code) == [kind |-> "raise", exc |-> "RuntimeError", status_code |-> status_code]

\* lines 72-77 of fetch_nfl_props
fetch_nfl_props ==
    /\ pc = "fetch_nfl_props"
    /\ IF KeyMissing
       THEN /\ Raise(Exception("EnvironmentError"))
            /\ UNCHANGED normalized
       ELSE LET r == _normalize_markets(IF IsNone(markets) THEN DefaultMarkets
                                                            ELSE Val(markets)) IN
            IF r.kind = "raise"
            THEN /\ Raise(r)
                 /\ UNCHANGED normalized
            ELSE /\ normalized' = r.value
                 /\ pc' = "fetch_nfl_props_get"
                 /\ UNCHANGED <<ret, e>>
    /\ UNCHANGED <<ODDS_API_KEY, call, markets, http, totals_read, moneylines_read, game,
                   totals_lookup, moneylines_lookup, environment_map, todo>>

\* lines 79-106 of fetch_nfl_props
fetch_nfl_props_get ==
    /\ pc = "fetch_nfl_props_get"
    /\ http' = Append(http, [markets |-> normalized])
    /\ \E out \in HttpOutcomes :
          IF "exc" \in DOMAIN out THEN Raise(Exception(out.exc))
          ELSE IF out.status_code # 200 THEN Raise(HttpError(out.status_code))
          ELSE /\ ret' = Returned(ResponseJson)
               /\ pc' = "done"
               /\ e' = e
    /\ UNCHANGED <<ODDS_API_KEY, call, markets, normalized, totals_read, moneylines_read,
                   game, totals_lookup, moneylines_lookup, environment_map, todo>>

\* lines 108-129; called by the caller, or by line 158
get_nfl_game_totals ==
    /\ pc = "get_nfl_game_totals"
    /\ IF KeyMissing
       THEN /\ Raise(Exception("EnvironmentError"))
            /\ UNCHANGED <<http, totals_read>>
       ELSE /\ http' = Append(http, [markets |-> << <<"totals">> >>])
            /\ \E out \in HttpOutcomes :
                  IF "exc" \in DOMAIN out
                  THEN Raise(Exception(out.exc)) /\ UNCHANGED totals_read
                  ELSE IF out.status_code # 200
                  THEN Raise(HttpError(out.status_code)) /\ UNCHANGED totals_read
                  ELSE IF call = "get_nfl_game_environment_map"
                  THEN /\ pc' = "get_nfl_moneylines"
                       /\ UNCHANGED <<ret, e, totals_read>>
                  ELSE /\ ret' = Returned(ResponseJson)
                       /\ pc' = "done"
                       /\ UNCHANGED <<totals_read, e>>
    /\ UNCHANGED <<ODDS_API_KEY, call, markets, normalized, moneylines_read, game,
                   totals_lookup, moneylines_lookup, environment_map, todo>>

\* lines 131-152; called by the caller, or by line 159
get_nfl_moneylines ==
    /\ pc = "get_nfl_moneylines"
    /\ IF KeyMissing
       THEN /\ Raise(Exception("EnvironmentError"))
            /\ UNCHANGED <<http, moneylines_read>>
       ELSE /\ http' = Append(http, [markets |-> << <<"h2h">> >>])
            /\ \E out \in HttpOutcomes :
                  IF "exc" \in DOMAIN out
                  THEN Raise(Exception(out.exc)) /\ UNCHANGED moneylines_read
                  ELSE IF out.status_code # 200
                  THEN Raise(HttpError(out.status_code)) /\ UNCHANGED moneylines_read
                  ELSE IF call = "get_nfl_game_environment_map"
                  THEN /\ pc' = "totals_loop"
                       /\ UNCHANGED <<ret, e, moneylines_read>>
                  ELSE /\ ret' = Returned(ResponseJson)
                       /\ pc' = "done"
                       /\ UNCHANGED <<moneylines_read, e>>
    /\ UNCHANGED <<ODDS_API_KEY, call, markets, normalized, totals_read, game,
                   totals_lookup, moneylines_lookup, environment_map, todo>>

\* lines 167-192: the body of the loop over totals_data, for the game g
TotalsIteration(g) ==
    /\ totals_read' = totals_read + 1
    /\ IF ~HasTeams(g)
       THEN Raise(Exception("KeyError")) /\ UNCHANGED totals_lookup
       ELSE /\ totals_lookup' = TotalsStore(totals_lookup, g)
            /\ UNCHANGED <<pc, ret, e>>

\* lines 166-192: the loop over totals_data. The response is read game by
\* game: either it has another game, whatever the provider sent in that
\* place, or it is exhausted and the loop ends.
totals_loop ==
    /\ pc = "totals_loop"
    /\ IsNone(game)
    /\ \/ /\ totals_read < MaxGames
          /\ \E g \in TotalsGames : TotalsIteration(g)
       \/ /\ pc' = "moneylines_loop"
          /\ totals_read' = 0
          /\ UNCHANGED <<ret, e, totals_lookup>>
    /\ UNCHANGED <<ODDS_API_KEY, call, markets, normalized, http, moneylines_read, game,
                   moneylines_lookup, environment_map, todo>>

\* The same iteration with the game known beforehand: `game` holds the
\* next game of totals_data.
totals_loop_game ==
    /\ pc = "totals_loop"
    /\ ~IsNone(game)
    /\ totals_read = 0
    /\ TotalsIteration(Val(game))
    /\ UNCHANGED <<ODDS_API_KEY, call, markets, normalized, http, moneylines_read, game,
                   moneylines_lookup, environment_map, todo>>

\* lines 196-224: the body of the loop over moneylines_data, for the game g
MoneylinesIteration(g) ==
    /\ moneylines_read' = moneylines_read + 1
    /\ IF ~HasTeams(g)
       THEN Raise(Exception("KeyError")) /\ UNCHANGED moneylines_lookup
       ELSE /\ moneylines_lookup' = MoneylineStore(moneylines_lookup, g)
            /\ UNCHANGED <<pc, ret, e>>

\* lines 195-224: the loop over moneylines_data, read game by game like
\* totals_data; at its end line 229 builds the set of matchups to combine
moneylines_loop ==
    /\ pc = "moneylines_loop"
    /\ \/ /\ moneylines_read < MaxGames
          /\ \E g \in MoneylineGames : MoneylinesIteration(g)
          /\ UNCHANGED todo
       \/ /\ pc' = "combine"
          /\ todo' = CombineKeys(totals_lookup, moneylines_lookup)
          /\ moneylines_read' = 0
          /\ UNCHANGED <<ret, e, moneylines_lookup>>
    /\ UNCHANGED <<ODDS_API_KEY, call, markets, normalized, http, totals_read, game,
                   totals_lookup, environment_map>>

\* lines 229-253: one iteration of the loop over the matchups, in the order
\* the set yields them, or the return of the finished map
combine ==
    /\ pc = "combine"
    /\ IF todo = {}
       THEN /\ ret' = Returned(environment_map)
            /\ pc' = "done"
            /\ UNCHANGED <<e, environment_map, todo>>
       ELSE \E matchup \in todo :
               LET totals_info == Get(totals_lookup, matchup, EmptyDict)
                   moneyline_info == Get(moneylines_lookup, matchup, EmptyDict)
                   f == TotalsFields(totals_info)
                   environment == Classify(f.total, f.over_odds, f.under_odds)
               IN IF environment = "TypeError"
                  THEN Raise(Exception("TypeError")) /\ UNCHANGED <<environment_map, todo>>
                  ELSE /\ environment_map' =
                            (matchup :> EnvironmentRecord(environment, f, moneyline_info))
                               @@ environment_map
                       /\ todo' = todo \ {matchup}
                       /\ UNCHANGED <<pc, ret, e>>
    /\ UNCHANGED <<ODDS_API_KEY, call, markets, normalized, http, totals_read,
                   moneylines_read, game, totals_lookup, moneylines_lookup>>

Next ==
    \/ Call
    \/ Return
    \/ fetch_nfl_props
    \/ fetch_nfl_props_get
    \/ get_nfl_game_totals
    \/ get_nfl_moneylines
    \/ totals_loop
    \/ moneylines_loop
    \/ combine

Spec == Init /\ [][Next]_vars

(***************************************************************************)
(* The scan of one game's totals (lines 166-192) on its own: the program   *)
(* stands at line 166 inside get_nfl_game_environment_map, the first game  *)
(* of totals_data is known, and the loop reads it.                         *)
(***************************************************************************)
ScanInit ==
    /\ ODDS_API_KEY = Some("key")
    /\ pc = "totals_loop"
    /\ call = "get_nfl_game_environment_map"
    /\ markets = None
    /\ normalized = <<>>
    /\ http = <<[markets |-> << <<"totals">> >>], [markets |-> << <<"h2h">> >>]>>
    /\ ret = Running
    /\ e = "None"
    /\ totals_read = 0
    /\ moneylines_read = 0
    /\ game \in {Some(g) : g \in TotalsGames}
    /\ totals_lookup = EmptyDict
    /\ moneylines_lookup = EmptyDict
    /\ environment_map = EmptyDict
    /\ todo = {}

ScanNext == totals_loop_game

ScanSpec == ScanInit /\ [][ScanNext]_vars

(***************************************************************************)
(* The properties.                                                         *)
(***************************************************************************)
Ended(f) == pc = "done" /\ call = f

\* the key as the specification describes it: unset is empty or absent
KeyUnset == ODDS_API_KEY \in {None, Some("")}

\* a requested name after whitespace stripping and alias resolution
Resolved(m) ==
    LET stripped == Strip(m) IN
    IF stripped \in DOMAIN MARKET_ALIASES THEN MARKET_ALIASES[stripped] ELSE stripped

\* the records of the map get_nfl_game_environment_map returned
ReturnedRecords ==
    IF Ended("get_nfl_game_environment_map") /\ ret.kind = "return"
    THEN {ret.value[m] : m \in DOMAIN ret.value}
    ELSE {}

\* C1: with the API key unset (empty or absent), fetch_nfl_props,
\* get_nfl_game_totals and get_nfl_moneylines end at once with the
\* configuration error raised to their caller, and no call of a public
\* function issues an HTTP request.
C1_UnsetKeyFailsFast ==
    KeyUnset =>
        /\ http = <<>>
        /\ pc \notin {"fetch_nfl_props_get", "get_nfl_moneylines", "totals_loop",
                      "moneylines_loop", "combine"}
           \/ (pc = "get_nfl_moneylines" /\ call = "get_nfl_moneylines")
        /\ \A f \in {"fetch_nfl_props", "get_nfl_game_totals", "get_nfl_moneylines"} :
              Ended(f) => ret = Exception("EnvironmentError")

C1_Witness ==
    /\ ODDS_API_KEY = Some("")
    /\ Ended("fetch_nfl_props")
    /\ ~IsNone(markets)
    /\ ret = Exception("EnvironmentError")

\* C2: with the API key set, a call of fetch_nfl_props whose markets hold a
\* name that resolves to no whitelisted key ends with the validation error
\* that lists the whole whitelist, and sends no request, wherever the name
\* stands in the list.
C2_UnsupportedMarketRejected ==
    ( /\ call = "fetch_nfl_props"
      /\ ~KeyUnset
      /\ ~IsNone(markets)
      /\ \E i \in DOMAIN Val(markets) : Resolved(Val(markets)[i]) \notin VALID_PLAYER_MARKETS )
    => /\ http = <<>>
       /\ pc \in {"fetch_nfl_props", "done"}
       /\ pc = "done" =>
            /\ ret.kind = "raise"
            /\ ret.exc = "ValueError"
            /\ Len(ret.valid) = Cardinality(VALID_PLAYER_MARKETS)
            /\ {ret.valid[i] : i \in DOMAIN ret.valid} = VALID_PLAYER_MARKETS

C2_Witness ==
    /\ Ended("fetch_nfl_props")
    /\ markets = Some(<< <<"rush_yds">>, <<"player_receptions">>, <<"totals">> >>)
    /\ ret.kind = "raise"
    /\ ret.exc = "ValueError"
    /\ ret.market = <<"totals">>
    /\ http = <<>>

\* the position of the first occurrence of key k in the list l
FirstIndex(l, k) == CHOOSE i \in DOMAIN l : l[i] = k /\ \A j \in 1..(i - 1) : l[j] # k

\* C3: when every requested name resolves to a whitelisted key, the
\* normalised list holds exactly the resolved keys of the request, none
\* twice, in the order of their first occurrences in the request.
C3_NormalizedDeDuplicated ==
    ( /\ call = "fetch_nfl_props"
      /\ pc \in {"fetch_nfl_props_get", "done"}
      /\ ~KeyUnset
      /\ ~IsNone(markets)
      /\ \A i \in DOMAIN Val(markets) : Resolved(Val(markets)[i]) \in VALID_PLAYER_MARKETS )
    => LET requested == [i \in DOMAIN Val(markets) |-> Resolved(Val(markets)[i])] IN
       /\ \A i, j \in DOMAIN normalized : i # j => normalized[i] # normalized[j]
       /\ {normalized[i] : i \in DOMAIN normalized} = {requested[i] : i \in DOMAIN requested}
       /\ \A i, j \in DOMAIN normalized :
             i < j => FirstIndex(requested, normalized[i]) < FirstIndex(requested, normalized[j])

C3_Witness ==
    /\ pc = "fetch_nfl_props_get"
    /\ markets = Some(<< <<"rush_yds">>, <<"player_receptions">>, <<"player_rush_yds">> >>)
    /\ normalized = << <<"player_rush_yds">>, <<"player_receptions">> >>

\* Variant B of the specification, on the fields of a record; a price that
\* is None satisfies no comparison
AtMost(x, bound) == ~IsNone(x) /\ Val(x) <= bound
VariantB(total, over_odds, under_odds) ==
    IF Val(total) >= 50 \/ (AtMost(over_odds, -115) /\ Val(total) >= 47) THEN "High Scoring"
    ELSE IF Val(total) <= 42 \/ (AtMost(under_odds, -115) /\ Val(total) <= 45) THEN "Low Scoring"
    ELSE "Neutral"

\* C4: the environment of every record of the returned map is the label
\* Variant B gives the record's own total, over_odds and under_odds.
C4_EnvironmentIsVariantB ==
    \A r \in ReturnedRecords : r.environment = VariantB(r.total, r.over_odds, r.under_odds)

C4_Witness ==
    \E r \in ReturnedRecords :
        /\ r.total = Some(46)
        /\ r.over_odds = Some(-110)
        /\ r.under_odds = Some(-110)
        /\ r.environment = "Neutral"

\* C5: get_nfl_game_environment_map raises nothing to its caller, and
\* whenever a step of the build failed it returns the empty map, not the
\* part of the map built so far.
C5_FailureGivesEmptyMap ==
    Ended("get_nfl_game_environment_map") =>
        /\ ret.kind = "return"
        /\ (e # "None" \/ KeyUnset \/ Len(http) < 2) => ret.value = EmptyDict

C5_Witness ==
    /\ Ended("get_nfl_game_environment_map")
    /\ e = "TypeError"
    /\ environment_map # EmptyDict
    /\ ret = Returned(EmptyDict)

\* C6: when the build runs to its end, the keys of the returned map are the
\* matchups of the two lookups together, and the record of a matchup that
\* only the moneyline lookup holds has total, over_odds and under_odds 0 and
\* the environment 'Neutral'.
C6_MoneylineOnlyIsNeutral ==
    ( /\ Ended("get_nfl_game_environment_map")
      /\ Len(http) = 2
      /\ e = "None" )
    => /\ DOMAIN ret.value = DOMAIN totals_lookup \cup DOMAIN moneylines_lookup
       /\ \A m \in DOMAIN moneylines_lookup \ DOMAIN totals_lookup :
             /\ ret.value[m].total = Some(0)
             /\ ret.value[m].over_odds = Some(0)
             /\ ret.value[m].under_odds = Some(0)
             /\ ret.value[m].environment = "Neutral"

\* C7: in every record that carries moneyline prices, the favored team is
\* the home team exactly when the home price is strictly lower than the away
\* price, and the away team otherwise, also when the prices are equal.
C7_FavoredTeamHasLowerPrice ==
    \A r \in ReturnedRecords :
        "favored_team" \in DOMAIN r =>
            r.favored_team = IF Val(r.home_odds) < Val(r.away_odds) THEN r.home_team
                                                                    ELSE r.away_team

C7_Witness ==
    \E r \in ReturnedRecords :
        /\ "favored_team" \in DOMAIN r
        /\ r.home_odds = Some(-150)
        /\ r.away_odds = Some(130)
        /\ r.favored_team = r.home_team

\* C8: every record of the returned map carries environment, total,
\* over_odds, under_odds, home_team and away_team.
C8_RecordHasTeams ==
    \A r \in ReturnedRecords :
        {"environment", "total", "over_odds", "under_odds", "home_team", "away_team"}
            \subseteq DOMAIN r

\* the bookmaker lists a totals market
ListsTotals(bookmaker) ==
    \E i \in DOMAIN Get(bookmaker, "markets", <<>>) : bookmaker.markets[i].key = "totals"

\* the outcomes called `name` in the bookmaker's first totals market
TotalsOutcomesNamed(bookmaker, name) ==
    LET ms == bookmaker.markets
        first == CHOOSE i \in DOMAIN ms :
                    ms[i].key = "totals" /\ \A j \in 1..(i - 1) : ms[j].key # "totals"
        outcomes == Get(ms[first], "outcomes", <<>>)
    IN {outcomes[i] : i \in {j \in DOMAIN outcomes : outcomes[j].name = name}}

\* the stored values are those of this bookmaker's totals market
StoredFrom(stored, bookmaker) ==
    LET overs == TotalsOutcomesNamed(bookmaker, "Over")
        unders == TotalsOutcomesNamed(bookmaker, "Under")
    IN /\ \E o \in overs : /\ stored.total = Some(o.point)
                           /\ stored.over_odds = Some(o.price)
       /\ IF unders = {} THEN stored.under_odds = None
          ELSE \E u \in unders : stored.under_odds = Some(u.price)

\* C9: the total, over_odds and under_odds stored for a game are all taken
\* from the totals market of one and the same bookmaker of the game, never
\* mixed from two bookmakers.
C9_TotalsFromOneBookmaker ==
    ( /\ pc = "totals_loop"
      /\ totals_read = 1
      /\ ~IsNone(game)
      /\ Matchup(Val(game)) \in DOMAIN totals_lookup )
    => LET bookmakers == Get(Val(game), "bookmakers", <<>>) IN
       \E i \in DOMAIN bookmakers :
          /\ ListsTotals(bookmakers[i])
          /\ StoredFrom(totals_lookup[Matchup(Val(game))], bookmakers[i])

\* C10: with the key set, both responses 200 and every game carrying its
\* teams, the returned map has a record for every game whose totals market
\* has an Over outcome; totals_lookup holds just those games (line 187).
C10_EveryTotalsGameHasRecord ==
    ( /\ Ended("get_nfl_game_environment_map")
      /\ ~KeyUnset
      /\ Len(http) = 2
      /\ e \in {"None", "TypeError"} )
    => /\ ret.kind = "return"
       /\ DOMAIN totals_lookup \subseteq DOMAIN ret.value

====
